---- MODULE Spec2Model ----
(***************************************************************************)
(* Model of target/riscv/translate.c: the RISC-V guest-to-IR translator.   *)
(*                                                                         *)
(* The translator emits TCG operations; the model gives every emitted      *)
(* operation its run-time meaning.  Operations on TCG temporaries are      *)
(* evaluated on an environment t (temporary name -> value); operations     *)
(* with a guest-visible side effect (a write of a guest register, of the   *)
(* guest pc, of badaddr, a helper call, a block exit) are applied to the   *)
(* guest state and also recorded, in order, in ir.                         *)
(*                                                                         *)
(* Machine words are scaled down from TARGET_LONG_BITS to XLEN bits and    *)
(* guest pages from TARGET_PAGE_BITS to PageBits bits.                     *)
(***************************************************************************)
EXTENDS Integers, Sequences, FiniteSets, TLC

(* ------------------------------ bounds --------------------------------- *)
\* width of target_ulong / TCGv (TARGET_LONG_BITS), scaled down
XLEN == 6
\* log2 of the guest page size (TARGET_PAGE_BITS), scaled down
PageBits == 3
\* instruction-count limit of a block when not single-stepping
MaxInsns == 3
\* number of handler calls made when the handlers are called on their own
MaxCalls == 3

(* --------------------------- machine words ----------------------------- *)
RECURSIVE Pow2(_)
Pow2(n) == IF n = 0 THEN 1 ELSE 2 * Pow2(n - 1)

TwoXLEN == Pow2(XLEN)
Word == 0 .. (TwoXLEN - 1)
\* (target_ulong)-1, (target_ulong)(~0L)
AllOnes == TwoXLEN - 1
\* ((target_ulong)1) << (TARGET_LONG_BITS - 1)
MinSigned == Pow2(XLEN - 1)

\* conversion to target_ulong
Trunc(x) == x % TwoXLEN
\* value of a word read as target_long
ToSigned(x) == IF x >= MinSigned THEN x - TwoXLEN ELSE x

Abs(x) == IF x < 0 THEN 0 - x ELSE x
\* C signed division truncates toward zero, the remainder takes the
\* dividend's sign
TruncDiv(a, b) == IF (a < 0) = (b < 0) THEN Abs(a) \div Abs(b)
                  ELSE 0 - (Abs(a) \div Abs(b))
TruncRem(a, b) == a - b * TruncDiv(a, b)

RECURSIVE BitAnd(_, _, _)
BitAnd(x, y, n) == IF n = 0 THEN 0
                   ELSE (x % 2) * (y % 2) + 2 * BitAnd(x \div 2, y \div 2, n - 1)
RECURSIVE BitOr(_, _, _)
BitOr(x, y, n) == IF n = 0 THEN 0
                  ELSE (IF (x % 2) + (y % 2) > 0 THEN 1 ELSE 0)
                       + 2 * BitOr(x \div 2, y \div 2, n - 1)

(* ----------------------- TCG temporaries ------------------------------- *)
\* the temporaries of one handler; "hostfault" becomes 1 when a host
\* divide instruction is executed on operands it is undefined for
NoTemps == [x \in {"hostfault"} |-> 0]
Put(t, d, v) == [x \in (DOMAIN t) \cup {d} |-> IF x = d THEN v ELSE t[x]]

tcg_gen_movi_tl(t, d, c) == Put(t, d, Trunc(c))
tcg_gen_mov_tl(t, d, a) == Put(t, d, t[a])
tcg_gen_setcondi_tl_EQ(t, d, a, c) == Put(t, d, IF t[a] = Trunc(c) THEN 1 ELSE 0)
tcg_gen_and_tl(t, d, a, b) == Put(t, d, BitAnd(t[a], t[b], XLEN))
tcg_gen_or_tl(t, d, a, b) == Put(t, d, BitOr(t[a], t[b], XLEN))
tcg_gen_add_tl(t, d, a, b) == Put(t, d, Trunc(t[a] + t[b]))
tcg_gen_sub_tl(t, d, a, b) == Put(t, d, Trunc(t[a] - t[b]))
tcg_gen_andi_tl(t, d, a, c) == Put(t, d, BitAnd(t[a], Trunc(c), XLEN))
\* d = (t[c1] == t[c2]) ? t[v1] : t[v2]
tcg_gen_movcond_tl_EQ(t, d, c1, c2, v1, v2) ==
    Put(t, d, IF t[c1] = t[c2] THEN t[v1] ELSE t[v2])
\* width of a word operation on the dual-width guest (32 of the 64 bits of
\* TARGET_RISCV64), scaled down with XLEN
WLEN == XLEN \div 2
TwoWLEN == Pow2(WLEN)
\* the low WLEN bits of x, sign-extended to XLEN bits
SignExtW(x) == IF x % TwoWLEN >= Pow2(WLEN - 1)
               THEN TwoXLEN - TwoWLEN + (x % TwoWLEN)
               ELSE x % TwoWLEN
tcg_gen_ext32s_tl(t, d, a) == Put(t, d, SignExtW(t[a]))
\* arithmetic shift right by a constant
tcg_gen_sari_tl(t, d, a, c) ==
    Put(t, d, Trunc(ToSigned(t[a]) \div Pow2(c)))
\* unsigned double-width product: low half to dl, high half to dh
tcg_gen_mulu2_tl(t, dl, dh, a, b) ==
    Put(Put(t, dl, (t[a] * t[b]) % TwoXLEN), dh, (t[a] * t[b]) \div TwoXLEN)
\* a shift by a count of XLEN or more is undefined in the IR: the result is
\* then any word ub
tcg_gen_shl_tl(t, d, a, b, ub) ==
    IF t[b] >= XLEN THEN Put(Put(t, d, ub), "hostfault", 1)
    ELSE Put(t, d, Trunc(t[a] * Pow2(t[b])))
tcg_gen_shr_tl(t, d, a, b, ub) ==
    IF t[b] >= XLEN THEN Put(Put(t, d, ub), "hostfault", 1)
    ELSE Put(t, d, t[a] \div Pow2(t[b]))
tcg_gen_sar_tl(t, d, a, b, ub) ==
    IF t[b] >= XLEN THEN Put(Put(t, d, ub), "hostfault", 1)
    ELSE Put(t, d, Trunc(ToSigned(t[a]) \div Pow2(t[b])))

\* The host's divide instructions are undefined for a zero divisor and,
\* when signed, for MinSigned / -1: the result is then any word ub (or the
\* host traps), and hostfault records that it happened.
HostDivBad(a, b) == b = 0 \/ (a = MinSigned /\ b = AllOnes)
tcg_gen_div_tl(t, d, a, b, ub) ==
    IF HostDivBad(t[a], t[b]) THEN Put(Put(t, d, ub), "hostfault", 1)
    ELSE Put(t, d, Trunc(TruncDiv(ToSigned(t[a]), ToSigned(t[b]))))
tcg_gen_rem_tl(t, d, a, b, ub) ==
    IF HostDivBad(t[a], t[b]) THEN Put(Put(t, d, ub), "hostfault", 1)
    ELSE Put(t, d, Trunc(TruncRem(ToSigned(t[a]), ToSigned(t[b]))))
tcg_gen_divu_tl(t, d, a, b, ub) ==
    IF t[b] = 0 THEN Put(Put(t, d, ub), "hostfault", 1)
    ELSE Put(t, d, t[a] \div t[b])
tcg_gen_remu_tl(t, d, a, b, ub) ==
    IF t[b] = 0 THEN Put(Put(t, d, ub), "hostfault", 1)
    ELSE Put(t, d, t[a] % t[b])

(* ------------------ arithmetic edge-case generators -------------------- *)
\* ret, arg1, arg2 (source1, source2) are names of temporaries; ret may be
\* the same temporary as arg1, as in gen_arith
\* gen_mulhsu without the sign correction: the unsigned high half
gen_mulhsu_nofix(t, ret, arg1, arg2) ==
    LET t1 == tcg_gen_mulu2_tl(t, "rl", "rh", arg1, arg2)
    IN  tcg_gen_mov_tl(t1, ret, "rh")

gen_mulhsu(t, ret, arg1, arg2) ==
    LET t1 == tcg_gen_mulu2_tl(t, "rl", "rh", arg1, arg2)
        t2 == tcg_gen_sari_tl(t1, "rl", arg1, XLEN - 1)
        t3 == tcg_gen_and_tl(t2, "rl", "rl", arg2)
    IN  tcg_gen_sub_tl(t3, ret, "rh", "rl")

\* gen_div whose divisor is replaced on divide-by-zero only, the overflow
\* condition left out of the select
gen_div_nooverflow(t, ret, source1, source2, ub) ==
    LET t0 == tcg_gen_movi_tl(t, "zeroreg", 0)
        t1 == tcg_gen_movi_tl(t0, "resultopt1", AllOnes)
        t5 == tcg_gen_setcondi_tl_EQ(t1, "cond2", source2, 0)
        t6 == tcg_gen_movcond_tl_EQ(t5, source1, "cond2", "zeroreg", source1,
                                    "resultopt1")
        t8 == tcg_gen_movi_tl(t6, "resultopt1", 1)
        t9 == tcg_gen_movcond_tl_EQ(t8, source2, "cond2", "zeroreg", source2,
                                    "resultopt1")
    IN  tcg_gen_div_tl(t9, ret, source1, source2, ub)

gen_div(t, ret, source1, source2, ub) ==
    LET t0 == tcg_gen_movi_tl(t, "zeroreg", 0)
        t1 == tcg_gen_movi_tl(t0, "resultopt1", AllOnes)
        t2 == tcg_gen_setcondi_tl_EQ(t1, "cond2", source2, AllOnes)
        t3 == tcg_gen_setcondi_tl_EQ(t2, "cond1", source1, MinSigned)
        t4 == tcg_gen_and_tl(t3, "cond1", "cond1", "cond2")
        t5 == tcg_gen_setcondi_tl_EQ(t4, "cond2", source2, 0)
        t6 == tcg_gen_movcond_tl_EQ(t5, source1, "cond2", "zeroreg", source1,
                                    "resultopt1")
        t7 == tcg_gen_or_tl(t6, "cond1", "cond1", "cond2")
        t8 == tcg_gen_movi_tl(t7, "resultopt1", 1)
        t9 == tcg_gen_movcond_tl_EQ(t8, source2, "cond1", "zeroreg", source2,
                                    "resultopt1")
    IN  tcg_gen_div_tl(t9, ret, source1, source2, ub)

gen_divu(t, ret, source1, source2, ub) ==
    LET t0 == tcg_gen_movi_tl(t, "zeroreg", 0)
        t1 == tcg_gen_setcondi_tl_EQ(t0, "cond1", source2, 0)
        t2 == tcg_gen_movi_tl(t1, "resultopt1", AllOnes)
        t3 == tcg_gen_movcond_tl_EQ(t2, source1, "cond1", "zeroreg", source1,
                                    "resultopt1")
        t4 == tcg_gen_movi_tl(t3, "resultopt1", 1)
        t5 == tcg_gen_movcond_tl_EQ(t4, source2, "cond1", "zeroreg", source2,
                                    "resultopt1")
    IN  tcg_gen_divu_tl(t5, ret, source1, source2, ub)

\* gen_rem whose final select tests cond2 (overflow or zero divisor) where
\* the code tests cond1 (zero divisor)
gen_rem_selcond2(t, ret, source1, source2, ub) ==
    LET t0 == tcg_gen_movi_tl(t, "zeroreg", 0)
        t1 == tcg_gen_movi_tl(t0, "resultopt1", 1)
        t2 == tcg_gen_setcondi_tl_EQ(t1, "cond2", source2, AllOnes)
        t3 == tcg_gen_setcondi_tl_EQ(t2, "cond1", source1, MinSigned)
        t4 == tcg_gen_and_tl(t3, "cond2", "cond1", "cond2")
        t5 == tcg_gen_setcondi_tl_EQ(t4, "cond1", source2, 0)
        t6 == tcg_gen_or_tl(t5, "cond2", "cond1", "cond2")
        t7 == tcg_gen_movcond_tl_EQ(t6, source2, "cond2", "zeroreg", source2,
                                    "resultopt1")
        t8 == tcg_gen_rem_tl(t7, "resultopt1", source1, source2, ub)
    IN  tcg_gen_movcond_tl_EQ(t8, ret, "cond2", "zeroreg", "resultopt1",
                              source1)

gen_rem(t, ret, source1, source2, ub) ==
    LET t0 == tcg_gen_movi_tl(t, "zeroreg", 0)
        t1 == tcg_gen_movi_tl(t0, "resultopt1", 1)
        t2 == tcg_gen_setcondi_tl_EQ(t1, "cond2", source2, AllOnes)
        t3 == tcg_gen_setcondi_tl_EQ(t2, "cond1", source1, MinSigned)
        t4 == tcg_gen_and_tl(t3, "cond2", "cond1", "cond2")
        t5 == tcg_gen_setcondi_tl_EQ(t4, "cond1", source2, 0)
        t6 == tcg_gen_or_tl(t5, "cond2", "cond1", "cond2")
        t7 == tcg_gen_movcond_tl_EQ(t6, source2, "cond2", "zeroreg", source2,
                                    "resultopt1")
        t8 == tcg_gen_rem_tl(t7, "resultopt1", source1, source2, ub)
    IN  tcg_gen_movcond_tl_EQ(t8, ret, "cond1", "zeroreg", "resultopt1",
                              source1)

gen_remu(t, ret, source1, source2, ub) ==
    LET t0 == tcg_gen_movi_tl(t, "zeroreg", 0)
        t1 == tcg_gen_movi_tl(t0, "resultopt1", 1)
        t2 == tcg_gen_setcondi_tl_EQ(t1, "cond1", source2, 0)
        t3 == tcg_gen_movcond_tl_EQ(t2, source2, "cond1", "zeroreg", source2,
                                    "resultopt1")
        t4 == tcg_gen_remu_tl(t3, "resultopt1", source1, source2, ub)
    IN  tcg_gen_movcond_tl_EQ(t4, ret, "cond1", "zeroreg", "resultopt1",
                              source1)

\* the generator passed as void(*func)(TCGv, TCGv, TCGv)
CallFunc(func, t, ret, a, b, ub) ==
    CASE func = "add"    -> tcg_gen_add_tl(t, ret, a, b)
      [] func = "sub"    -> tcg_gen_sub_tl(t, ret, a, b)
      [] func = "mulhsu" -> gen_mulhsu(t, ret, a, b)
      [] func = "div"    -> gen_div(t, ret, a, b, ub)
      [] func = "divu"   -> gen_divu(t, ret, a, b, ub)
      [] func = "rem"    -> gen_rem(t, ret, a, b, ub)
      [] func = "remu"   -> gen_remu(t, ret, a, b, ub)
      [] func = "shl"    -> tcg_gen_shl_tl(t, ret, a, b, ub)
      [] func = "shr"    -> tcg_gen_shr_tl(t, ret, a, b, ub)
      [] func = "sar"    -> tcg_gen_sar_tl(t, ret, a, b, ub)

\* the words the host may leave in the result of an undefined operation:
\* only consulted when the call reaches one
UBWords(func, t, ret, a, b) ==
    IF CallFunc(func, t, ret, a, b, 0)["hostfault"] = 1 THEN Word ELSE {0}

(* ------------------------------ state ---------------------------------- *)
VARIABLES
    gpr,                \* CPURISCVState.gpr[0..31], reached through cpu_gpr[1..31]
    cpu_pc,             \* CPURISCVState.pc, reached through cpu_pc
    badaddr,            \* CPURISCVState.badaddr
    hostfault,          \* TRUE once emitted IR ran an undefined host operation
    pc_first,           \* ctx->base.pc_first (= tb->pc)
    pc_next,            \* ctx->base.pc_next
    pc_succ_insn,       \* ctx->pc_succ_insn
    is_jmp,             \* ctx->base.is_jmp
    frm,                \* ctx->frm
    singlestep_enabled, \* ctx->base.singlestep_enabled
    rvc,                \* riscv_has_ext(env, RVC)
    breakpoints,        \* cpu->breakpoints, as a set of addresses
    num_insns,          \* ctx->base.num_insns
    max_insns,          \* ctx->base.max_insns
    opcode,             \* ctx->opcode, decoded: the instruction last handled
    ir,                 \* side-effecting IR operations emitted by the last step
    prev_rm,            \* history: rounding mode last requested in this block
    phase,              \* position of the block driver
    gen,                \* a generator applied on its own: inputs and result
    CONFIG_USER_ONLY    \* the build: TRUE when CONFIG_USER_ONLY is defined

vars == <<gpr, cpu_pc, badaddr, hostfault, pc_first, pc_next, pc_succ_insn,
          is_jmp, frm, singlestep_enabled, rvc, breakpoints, num_insns,
          max_insns, opcode, ir, prev_rm, phase, gen, CONFIG_USER_ONLY>>

\* exit reasons (exec/translator.h)
DISAS_NEXT == "DISAS_NEXT"
DISAS_TOO_MANY == "DISAS_TOO_MANY"
DISAS_NORETURN == "DISAS_NORETURN"

\* "no previous fp instruction"
FrmUnknown == -1
\* "no rounding mode requested yet in this block"
NoRequest == FrmUnknown - 1

NoInsn == [kind |-> "none", len |-> 0, rd |-> 0, rs1 |-> 0, rs2 |-> 0,
           imm |-> 0, func |-> "none", opc |-> "none", csr |-> 0, rm |-> 0]
GenIdle(a, b) == [fn |-> "none", a |-> a, b |-> b, alias |-> FALSE,
                  ret |-> 0, s1 |-> a, s2 |-> b, fault |-> 0]

(* --------------------- translation context ----------------------------- *)
\* the context and the guest state as one record, so that a handler is an
\* operator from record to record and handlers compose as the calls do
Cur == [gpr |-> gpr, cpu_pc |-> cpu_pc, badaddr |-> badaddr,
        hostfault |-> hostfault, pc_first |-> pc_first, pc_next |-> pc_next,
        pc_succ_insn |-> pc_succ_insn, is_jmp |-> is_jmp, frm |-> frm,
        singlestep_enabled |-> singlestep_enabled, rvc |-> rvc,
        num_insns |-> num_insns, max_insns |-> max_insns,
        opcode |-> opcode, ir |-> ir, prev_rm |-> prev_rm]

Becomes(S) ==
    /\ gpr' = S.gpr /\ cpu_pc' = S.cpu_pc /\ badaddr' = S.badaddr
    /\ hostfault' = S.hostfault /\ pc_first' = S.pc_first
    /\ pc_next' = S.pc_next /\ pc_succ_insn' = S.pc_succ_insn
    /\ is_jmp' = S.is_jmp /\ frm' = S.frm
    /\ singlestep_enabled' = S.singlestep_enabled /\ rvc' = S.rvc
    /\ num_insns' = S.num_insns /\ max_insns' = S.max_insns
    /\ opcode' = S.opcode /\ ir' = S.ir /\ prev_rm' = S.prev_rm

\* exception codes
RISCV_EXCP_INST_ADDR_MIS == 0
RISCV_EXCP_ILLEGAL_INST == 2
RISCV_EXCP_BREAKPOINT == 3
RISCV_EXCP_U_ECALL == 8
EXCP_DEBUG == 65538

TARGET_PAGE_SIZE == Pow2(PageBits)
\* addr & TARGET_PAGE_MASK
PageStart(addr) == addr - (addr % TARGET_PAGE_SIZE)

(* ---------------- side-effecting IR operations ------------------------- *)
Op(name, arg) == [op |-> name, arg |-> arg]
emit(S, o) == [S EXCEPT !.ir = Append(@, o)]

\* tcg_gen_movi_tl(cpu_pc, v)
tcg_gen_movi_pc(S, v) == [emit(S, Op("movi_pc", Trunc(v))) EXCEPT !.cpu_pc = Trunc(v)]
\* tcg_gen_st_tl(cpu_pc, cpu_env, offsetof(CPURISCVState, badaddr))
tcg_gen_st_badaddr(S) == [emit(S, Op("st_badaddr", S.cpu_pc)) EXCEPT !.badaddr = S.cpu_pc]
gen_helper_raise_exception(S, excp) == emit(S, Op("raise_exception", excp))
gen_helper_set_rounding_mode(S, rm) == emit(S, Op("set_rounding_mode", rm))
tcg_gen_goto_tb(S, n) == emit(S, Op("goto_tb", n))
\* tcg_gen_exit_tb(tb, n) with tb the block being translated: chained
tcg_gen_exit_tb(S, n) == emit(S, Op("exit_tb", n))
\* tcg_gen_exit_tb(NULL, 0): back to the main loop, never chained
tcg_gen_exit_tb_NULL(S) == emit(S, Op("exit_tb_NULL", 0))
tcg_gen_lookup_and_goto_ptr(S) == emit(S, Op("lookup_and_goto_ptr", 0))
tcg_gen_insn_start(S, pc) == emit(S, Op("insn_start", pc))
\* tcg_gen_mov_tl(cpu_gpr[reg], t) and tcg_gen_movi_tl(cpu_gpr[reg], v)
tcg_gen_mov_gpr(S, reg, v) == [emit(S, Op("mov_gpr", reg)) EXCEPT !.gpr[reg] = v]

CountOp(seq, name) == Cardinality({i \in 1 .. Len(seq) : seq[i].op = name})

(* --------------------------- exceptions -------------------------------- *)
generate_exception(S, excp) ==
    LET S1 == tcg_gen_movi_pc(S, S.pc_next)
        S2 == gen_helper_raise_exception(S1, excp)
    IN  [S2 EXCEPT !.is_jmp = DISAS_NORETURN]

generate_exception_mbadaddr(S, excp) ==
    LET S1 == tcg_gen_movi_pc(S, S.pc_next)
        S2 == tcg_gen_st_badaddr(S1)
        S3 == gen_helper_raise_exception(S2, excp)
    IN  [S3 EXCEPT !.is_jmp = DISAS_NORETURN]

gen_exception_debug(S) == gen_helper_raise_exception(S, EXCP_DEBUG)
gen_exception_illegal(S) == generate_exception(S, RISCV_EXCP_ILLEGAL_INST)
gen_exception_inst_addr_mis(S) ==
    generate_exception_mbadaddr(S, RISCV_EXCP_INST_ADDR_MIS)

(* ----------------------------- block exits ----------------------------- *)
\* use_goto_tb without the page test, whatever the build
use_goto_tb_nopage(S, dest) == ~S.singlestep_enabled

use_goto_tb(S, dest) ==
    IF S.singlestep_enabled THEN FALSE
    ELSE IF ~CONFIG_USER_ONLY THEN PageStart(S.pc_first) = PageStart(dest)
    ELSE TRUE

gen_goto_tb(S, n, dest) ==
    IF use_goto_tb(S, dest)
    THEN tcg_gen_exit_tb(tcg_gen_movi_pc(tcg_gen_goto_tb(S, n), dest), n)
    ELSE LET S1 == tcg_gen_movi_pc(S, dest)
         IN  IF S1.singlestep_enabled THEN gen_exception_debug(S1)
             ELSE tcg_gen_lookup_and_goto_ptr(S1)

(* --------------------------- register file ----------------------------- *)
\* the temporaries t with temporary d loaded from register reg_num
gen_get_gpr(S, t, d, reg_num) ==
    IF reg_num = 0 THEN tcg_gen_movi_tl(t, d, 0)
    ELSE Put(t, d, S.gpr[reg_num])

\* gen_set_gpr that writes whatever the destination index
gen_set_gpr_nocheck(S, reg_num_dst, v) == tcg_gen_mov_gpr(S, reg_num_dst, v)

gen_set_gpr(S, reg_num_dst, v) ==
    IF reg_num_dst # 0 THEN tcg_gen_mov_gpr(S, reg_num_dst, v)
    ELSE S

(* ------------------------ semantic translators ------------------------- *)
\* gen_jal that writes the link register before the alignment check
gen_jal_linkfirst(S, rd, imm) ==
    LET next_pc == Trunc(S.pc_next + imm)
        S0 == IF rd # 0 THEN tcg_gen_mov_gpr(S, rd, S.pc_succ_insn) ELSE S
    IN  IF ~S.rvc /\ next_pc % 4 # 0
        THEN gen_exception_inst_addr_mis(S0)
        ELSE [gen_goto_tb(S0, 0, Trunc(S.pc_next + imm))
                EXCEPT !.is_jmp = DISAS_NORETURN]

\* gen_jal that links the address 4 bytes after the jump, whatever its length
gen_jal_link4(S, rd, imm) ==
    LET next_pc == Trunc(S.pc_next + imm)
    IN  IF ~S.rvc /\ next_pc % 4 # 0
        THEN gen_exception_inst_addr_mis(S)
        ELSE LET S1 == IF rd # 0
                       THEN tcg_gen_mov_gpr(S, rd, Trunc(S.pc_next + 4))
                       ELSE S
                 S2 == gen_goto_tb(S1, 0, Trunc(S.pc_next + imm))
             IN  [S2 EXCEPT !.is_jmp = DISAS_NORETURN]

gen_jal(S, rd, imm) ==
    LET next_pc == Trunc(S.pc_next + imm)
    IN  IF ~S.rvc /\ next_pc % 4 # 0
        THEN gen_exception_inst_addr_mis(S)
        ELSE LET S1 == IF rd # 0
                       THEN tcg_gen_mov_gpr(S, rd, S.pc_succ_insn)
                       ELSE S
                 S2 == gen_goto_tb(S1, 0, Trunc(S.pc_next + imm))
             IN  [S2 EXCEPT !.is_jmp = DISAS_NORETURN]

gen_set_rm(S, rm) ==
    IF S.frm = rm THEN S
    ELSE gen_helper_set_rounding_mode([S EXCEPT !.frm = rm], rm)

\* gen_system whose ECALL leaves through a chained exit of the block
gen_system_chained(S, opc, rd, rs1, csr) ==
    LET S0 == tcg_gen_movi_pc(S, S.pc_next)
    IN  IF opc = "OPC_RISC_ECALL"
        THEN IF csr \in {0, 1}
             THEN gen_goto_tb(S0, 0, S.pc_succ_insn)
             ELSE gen_exception_illegal(S0)
        ELSE S0

gen_system(S, opc, rd, rs1, csr) ==
    LET S0 == tcg_gen_movi_pc(S, S.pc_next)
    IN  IF opc = "OPC_RISC_ECALL"
        THEN CASE csr = 0 ->
                    [tcg_gen_exit_tb_NULL(
                         generate_exception(S0, RISCV_EXCP_U_ECALL))
                       EXCEPT !.is_jmp = DISAS_NORETURN]
               [] csr = 1 ->
                    [tcg_gen_exit_tb_NULL(
                         generate_exception(S0, RISCV_EXCP_BREAKPOINT))
                       EXCEPT !.is_jmp = DISAS_NORETURN]
               [] OTHER -> gen_exception_illegal(S0)
        ELSE S0

Faulted(S, t) == [S EXCEPT !.hostfault = @ \/ t["hostfault"] = 1]

\* temporaries of gen_arith_imm / gen_arith / gen_shift before func runs
ArithImmTemps(S, a) ==
    tcg_gen_movi_tl(gen_get_gpr(S, NoTemps, "source1", a.rs1), "source2", a.imm)
ArithTemps(S, a) ==
    gen_get_gpr(S, gen_get_gpr(S, NoTemps, "source1", a.rs1), "source2", a.rs2)
ShiftTemps(S, a) ==
    tcg_gen_andi_tl(ArithTemps(S, a), "source2", "source2", XLEN - 1)

\* temporaries of gen_arith_w before func runs
ArithWTemps(S, a) ==
    tcg_gen_ext32s_tl(tcg_gen_ext32s_tl(ArithTemps(S, a), "source1", "source1"),
                      "source2", "source2")

\* gen_set_gpr(rd, source1) after func has run on the temporaries t
WriteBack(S, t, rd) == gen_set_gpr(Faulted(S, t), rd, t["source1"])

\* gen_arith_imm that writes rs1 where the code writes rd
gen_arith_imm_wrongdest(S, a, func, ub) ==
    WriteBack(S, CallFunc(func, ArithImmTemps(S, a),
                          "source1", "source1", "source2", ub), a.rs1)

gen_arith_imm(S, a, func, ub) ==
    WriteBack(S, CallFunc(func, ArithImmTemps(S, a),
                          "source1", "source1", "source2", ub), a.rd)

gen_arith(S, a, func, ub) ==
    WriteBack(S, CallFunc(func, ArithTemps(S, a),
                          "source1", "source1", "source2", ub), a.rd)

gen_shift(S, a, func, ub) ==
    WriteBack(S, CallFunc(func, ShiftTemps(S, a),
                          "source1", "source1", "source2", ub), a.rd)

\* TARGET_RISCV64 only
gen_arith_w(S, a, func, ub) ==
    WriteBack(S, CallFunc(func, ArithWTemps(S, a),
                          "source1", "source1", "source2", ub), a.rd)

(* ------------------------------ decoder -------------------------------- *)
\* A fetched opcode, decoded: len is 2 when the low two opcode bits are not
\* 0b11 and 4 when they are; kind selects the trans_ function and with it
\* the handler of this file; "illegal" is an opcode no pattern matches.
Insn(kind, len, rd, rs1, rs2, imm, func, opc, csr, rm) ==
    [kind |-> kind, len |-> len, rd |-> rd, rs1 |-> rs1, rs2 |-> rs2,
     imm |-> imm, func |-> func, opc |-> opc, csr |-> csr, rm |-> rm]

\* rounding modes requested by fp instructions (the 3-bit rm field)
RMs == {0, 1, 7}

\* decode_insn32 / decode_insn16 and the trans_ functions they call
Decode(S, insn, ub) ==
    CASE insn.kind = "arith_imm" ->
            [ok |-> TRUE, S |-> gen_arith_imm(S, insn, insn.func, ub)]
      [] insn.kind = "arith" ->
            [ok |-> TRUE, S |-> gen_arith(S, insn, insn.func, ub)]
      [] insn.kind = "shift" ->
            [ok |-> TRUE, S |-> gen_shift(S, insn, insn.func, ub)]
      [] insn.kind = "jal" ->
            [ok |-> TRUE, S |-> gen_jal(S, insn.rd, insn.imm)]
      [] insn.kind = "system" ->
            [ok |-> TRUE,
             S |-> gen_system(S, insn.opc, insn.rd, insn.rs1, insn.csr)]
      [] insn.kind = "fp" ->
            [ok |-> TRUE,
             S |-> [gen_set_rm(S, insn.rm) EXCEPT !.prev_rm = insn.rm]]
      [] OTHER -> [ok |-> FALSE, S |-> S]
decode_insn32(S, insn, ub) == Decode(S, insn, ub)
decode_insn16(S, insn, ub) == Decode(S, insn, ub)

\* the undefined results the handler of insn can reach from S
InsnUB(S, insn) ==
    CASE insn.kind = "arith_imm" ->
            UBWords(insn.func, ArithImmTemps(S, insn), "source1", "source1", "source2")
      [] insn.kind = "arith" ->
            UBWords(insn.func, ArithTemps(S, insn), "source1", "source1", "source2")
      [] insn.kind = "shift" ->
            UBWords(insn.func, ShiftTemps(S, insn), "source1", "source1", "source2")
      [] insn.kind = "arith_w" ->
            UBWords(insn.func, ArithWTemps(S, insn), "source1", "source1", "source2")
      [] OTHER -> {0}

\* a decoder mismatch that is let pass
IllegalUnlessDecoded_ignore(d) == d.S

\* if (!decode_insn(ctx, opcode)) gen_exception_illegal(ctx)
IllegalUnlessDecoded(d) == IF ~d.ok THEN gen_exception_illegal(d.S) ELSE d.S
SetSucc(S, len) == [S EXCEPT !.pc_succ_insn = Trunc(S.pc_next + len)]

decode_opc(S, ub) ==
    IF S.opcode.len # 4
    THEN IF ~S.rvc THEN gen_exception_illegal(S)
         ELSE IllegalUnlessDecoded(decode_insn16(SetSucc(S, 2), S.opcode, ub))
    ELSE IllegalUnlessDecoded(decode_insn32(SetSucc(S, 4), S.opcode, ub))

(* ---------------------------- block driver ----------------------------- *)
\* riscv_tr_init_disas_context that keeps whatever ctx->frm held
riscv_tr_init_disas_context_keepfrm(S) ==
    [S EXCEPT !.pc_succ_insn = S.pc_first]

riscv_tr_init_disas_context(S) ==
    [S EXCEPT !.pc_succ_insn = S.pc_first, !.frm = FrmUnknown]

riscv_tr_insn_start(S) == tcg_gen_insn_start(S, S.pc_next)

\* riscv_tr_breakpoint_check that leaves the exit reason alone
riscv_tr_breakpoint_check_nojmp(S) ==
    LET S1 == gen_exception_debug(tcg_gen_movi_pc(S, S.pc_next))
    IN  [S1 EXCEPT !.pc_next = Trunc(S.pc_next + 4)]

\* riscv_tr_breakpoint_check that leaves pc_next at the breakpoint
riscv_tr_breakpoint_check_noadvance(S) ==
    gen_exception_debug(
        [tcg_gen_movi_pc(S, S.pc_next) EXCEPT !.is_jmp = DISAS_NORETURN])

riscv_tr_breakpoint_check(S) ==
    LET S1 == tcg_gen_movi_pc(S, S.pc_next)
        S2 == gen_exception_debug([S1 EXCEPT !.is_jmp = DISAS_NORETURN])
    IN  [S2 EXCEPT !.pc_next = Trunc(S.pc_next + 4)]

\* ctx->base.pc_next = ctx->pc_succ_insn
Advance(S) == [S EXCEPT !.pc_next = S.pc_succ_insn]
\* the page test left out
PageCheck_never(S) == S

\* the page test that ends riscv_tr_translate_insn
PageCheck(S) ==
    IF S.is_jmp = DISAS_NEXT
       /\ Trunc(S.pc_next - PageStart(S.pc_first)) >= TARGET_PAGE_SIZE
    THEN [S EXCEPT !.is_jmp = DISAS_TOO_MANY]
    ELSE S

\* riscv_tr_translate_insn without the page check
riscv_tr_translate_insn_nopage(S, insn, ub) ==
    Advance(decode_opc([S EXCEPT !.opcode = insn], ub))

\* insn is what cpu_ldl_code fetches at pc_next
riscv_tr_translate_insn(S, insn, ub) ==
    PageCheck(Advance(decode_opc([S EXCEPT !.opcode = insn], ub)))

\* ok is FALSE when g_assert_not_reached() is reached
riscv_tr_tb_stop(S) ==
    CASE S.is_jmp = DISAS_TOO_MANY ->
            [ok |-> TRUE, S |-> gen_goto_tb(S, 0, S.pc_next)]
      [] S.is_jmp = DISAS_NORETURN -> [ok |-> TRUE, S |-> S]
      [] OTHER -> [ok |-> FALSE, S |-> S]

\* translator_loop: the state set up before init_disas_context is called;
\* max_insns comes in from the caller (the block's instruction budget)
translator_loop_prologue(S) ==
    [S EXCEPT !.pc_next = S.pc_first, !.is_jmp = DISAS_NEXT, !.num_insns = 0,
              !.max_insns = IF S.singlestep_enabled THEN 1 ELSE S.max_insns,
              !.prev_rm = NoRequest]

\* register file at block entry
GprInit == [r \in 0 .. 31 |-> IF r = 31 THEN AllOnes ELSE IF r = 5 THEN 1 ELSE 0]

\* block start addresses: a page start, one 4-byte and one 2-byte
\* instruction before a page boundary, and the last word of the address space
StartPCs == {0, TARGET_PAGE_SIZE - 4, TARGET_PAGE_SIZE - 2, TwoXLEN - 4}

\* the instructions guest memory may hold
DriverInsns ==
    {Insn("arith_imm", len, 5, 0, 0, 42, "add", "none", 0, 0) : len \in {2, 4}}
    \cup {Insn("arith", 4, 5, 5, 31, 0, "div", "none", 0, 0)}
    \cup {Insn("shift", 2, 5, 5, 31, 0, "shl", "none", 0, 0)}
    \cup {Insn("jal", 4, rd, 0, 0, imm, "none", "none", 0, 0) :
            rd \in {0, 1}, imm \in {2, 4, TARGET_PAGE_SIZE, AllOnes - 3}}
    \cup {Insn("jal", 2, rd, 0, 0, imm, "none", "none", 0, 0) :
            rd \in {0, 1}, imm \in {2, 4}}
    \cup {Insn("system", 4, 0, 0, 0, 0, "none", "OPC_RISC_ECALL", csr, 0) :
            csr \in {0, 1, 2}}
    \cup {Insn("system", 4, 0, 0, 0, 0, "none", "OPC_RISC_CSRRW", 0, 0)}
    \cup {Insn("fp", 4, 0, 0, 0, 0, "none", "none", 0, rm) : rm \in RMs}
    \cup {Insn("fp", 2, 0, 0, 0, 0, "none", "none", 0, 1)}
    \cup {Insn("illegal", len, 0, 0, 0, 0, "none", "none", 0, 0) : len \in {2, 4}}

Init ==
    /\ gpr = GprInit
    /\ pc_first \in StartPCs
    /\ rvc \in BOOLEAN
    /\ rvc \/ pc_first % 4 = 0
    /\ cpu_pc = pc_first /\ badaddr = 0 /\ hostfault = FALSE
    /\ singlestep_enabled \in BOOLEAN
    /\ breakpoints \in {{}, {pc_first}, {Trunc(pc_first + 4)}}
    \* the context is a local of gen_intermediate_code: ctx.frm holds
    \* whatever an earlier translation left on the stack
    /\ frm \in {FrmUnknown} \cup RMs
    /\ pc_next = 0 /\ pc_succ_insn = 0 /\ is_jmp = DISAS_NEXT
    \* the budget the caller passes: a small one, or one the page limit
    \* is reached before
    /\ num_insns = 0 /\ max_insns \in {MaxInsns, TARGET_PAGE_SIZE}
    /\ opcode = NoInsn /\ ir = <<>> /\ prev_rm = NoRequest
    /\ phase = "Init"
    /\ gen = GenIdle(0, 0)
    \* system emulation, or user-mode emulation; breakpoints are set in
    \* system emulation under the small budget
    /\ CONFIG_USER_ONLY \in BOOLEAN
    /\ breakpoints # {} => ~CONFIG_USER_ONLY /\ max_insns = MaxInsns
    /\ CONFIG_USER_ONLY => max_insns = MaxInsns

Fresh == [Cur EXCEPT !.ir = <<>>]

TranslatorInit ==
    /\ phase = "Init"
    /\ Becomes(riscv_tr_init_disas_context(translator_loop_prologue(Fresh)))
    /\ phase' = "InsnStart"
    /\ UNCHANGED <<breakpoints, gen, CONFIG_USER_ONLY>>

InsnStart ==
    /\ phase = "InsnStart"
    /\ Becomes(riscv_tr_insn_start([Fresh EXCEPT !.num_insns = @ + 1]))
    /\ phase' = "BreakpointCheck"
    /\ UNCHANGED <<breakpoints, gen, CONFIG_USER_ONLY>>

BreakpointCheck ==
    /\ phase = "BreakpointCheck"
    /\ IF pc_next \in breakpoints
       THEN /\ Becomes(riscv_tr_breakpoint_check(Fresh))
            /\ phase' = "BlockStop"
       ELSE /\ Becomes(Fresh)
            /\ phase' = "Translate"
    /\ UNCHANGED <<breakpoints, gen, CONFIG_USER_ONLY>>

\* translator_loop after translate_insn: stop when the exit reason was
\* set or the instruction-count limit is reached
LoopTest(S) ==
    IF S.is_jmp # DISAS_NEXT
    THEN Becomes(S) /\ phase' = "BlockStop"
    ELSE IF S.num_insns >= S.max_insns
    THEN Becomes([S EXCEPT !.is_jmp = DISAS_TOO_MANY]) /\ phase' = "BlockStop"
    ELSE Becomes(S) /\ phase' = "InsnStart"

Translate ==
    /\ phase = "Translate"
    /\ \E insn \in DriverInsns : \E ub \in InsnUB(Fresh, insn) :
         LoopTest(riscv_tr_translate_insn(Fresh, insn, ub))
    /\ UNCHANGED <<breakpoints, gen, CONFIG_USER_ONLY>>

Stopped(r) == Becomes(r.S) /\ phase' = IF r.ok THEN "Done" ELSE "Abort"

BlockStop ==
    /\ phase = "BlockStop"
    /\ Stopped(riscv_tr_tb_stop(Fresh))
    /\ UNCHANGED <<breakpoints, gen, CONFIG_USER_ONLY>>

Next == \/ TranslatorInit
        \/ InsnStart
        \/ BreakpointCheck
        \/ Translate
        \/ BlockStop

Spec == Init /\ [][Next]_vars

\* the driver has a step to take: Running = ENABLED <<Next>>_vars
Running == phase \notin {"Done", "Abort"}
\* the driver runs without suspension points, so a step that can be taken is
\* taken: weak fairness of Next, written out with Running for the
\* enabling condition
SpecLive == Spec /\ ([]<>(~Running) \/ []<><<Next>>_vars)

(* ------------------- the handlers called on their own ------------------ *)
HDst == {0, 5}
HSrc == {0, 5}
HImms == {1, 42}
HSrc2 == {5, 31}
HFuncs == {"add", "div"}

InitHandlers ==
    /\ gpr = GprInit
    /\ pc_first = TARGET_PAGE_SIZE - 4
    /\ pc_next = pc_first /\ pc_succ_insn = Trunc(pc_first + 4)
    /\ rvc \in BOOLEAN
    /\ cpu_pc = pc_first /\ badaddr = 0 /\ hostfault = FALSE
    /\ singlestep_enabled = FALSE
    /\ breakpoints = {}
    /\ frm \in {FrmUnknown, 1}
    /\ is_jmp = DISAS_NEXT
    /\ num_insns = 0 /\ max_insns = MaxCalls
    /\ opcode = NoInsn /\ ir = <<>> /\ prev_rm = NoRequest
    /\ phase = "Handlers"
    /\ gen = GenIdle(0, 0)
    /\ CONFIG_USER_ONLY = FALSE

\* each call stands for one instruction of the block
Called(insn) == [Fresh EXCEPT !.opcode = insn, !.num_insns = @ + 1]
CanCall == phase = "Handlers" /\ num_insns < max_insns
HFrame == UNCHANGED <<breakpoints, gen, phase, CONFIG_USER_ONLY>>

Call_gen_set_gpr ==
    /\ CanCall
    /\ \E rd \in HDst, v \in HImms :
         Becomes(gen_set_gpr(
             Called(Insn("set_gpr", 0, rd, 0, 0, v, "none", "none", 0, 0)),
             rd, v))
    /\ HFrame

Call_gen_arith_imm ==
    /\ CanCall
    /\ \E rd \in HDst, rs1 \in HSrc, imm \in HImms, func \in HFuncs :
         LET a == Insn("arith_imm", 0, rd, rs1, 0, imm, func, "none", 0, 0)
         IN  \E ub \in InsnUB(Fresh, a) :
               Becomes(gen_arith_imm(Called(a), a, func, ub))
    /\ HFrame

Call_gen_arith ==
    /\ CanCall
    /\ \E rd \in HDst, rs1 \in HSrc, rs2 \in HSrc2, func \in HFuncs :
         LET a == Insn("arith", 0, rd, rs1, rs2, 0, func, "none", 0, 0)
         IN  \E ub \in InsnUB(Fresh, a) :
               Becomes(gen_arith(Called(a), a, func, ub))
    /\ HFrame

Call_gen_shift ==
    /\ CanCall
    /\ \E rd \in HDst, rs1 \in {5}, rs2 \in {0, 31}, func \in {"shl"} :
         LET a == Insn("shift", 0, rd, rs1, rs2, 0, func, "none", 0, 0)
         IN  \E ub \in InsnUB(Fresh, a) :
               Becomes(gen_shift(Called(a), a, func, ub))
    /\ HFrame

Call_gen_jal ==
    /\ CanCall
    /\ \E rd \in {0, 1}, imm \in {2, 4} :
         Becomes(gen_jal(
             Called(Insn("jal", 0, rd, 0, 0, imm, "none", "none", 0, 0)),
             rd, imm))
    /\ HFrame

NextHandlers == \/ Call_gen_set_gpr
                \/ Call_gen_arith_imm
                \/ Call_gen_arith
                \/ Call_gen_shift
                \/ Call_gen_jal

SpecHandlers == InitHandlers /\ [][NextHandlers]_vars

(* ---------- gen_arith_w called on its own, on every operand pair ------- *)
\* the operations passed to gen_arith_w
WFuncs == {"add", "sub", "div", "divu", "rem", "remu"}

InitArithW ==
    /\ \E v1 \in Word, v2 \in Word :
         gpr = [r \in 0 .. 31 |-> IF r = 5 THEN v1 ELSE IF r = 6 THEN v2 ELSE 0]
    /\ pc_first = 0 /\ pc_next = 0 /\ pc_succ_insn = 4
    /\ rvc = FALSE
    /\ cpu_pc = 0 /\ badaddr = 0 /\ hostfault = FALSE
    /\ singlestep_enabled = FALSE
    /\ breakpoints = {}
    /\ frm = FrmUnknown
    /\ is_jmp = DISAS_NEXT
    /\ num_insns = 0 /\ max_insns = 1
    /\ opcode = NoInsn /\ ir = <<>> /\ prev_rm = NoRequest
    /\ phase = "Handlers"
    /\ gen = GenIdle(0, 0)
    /\ CONFIG_USER_ONLY = FALSE

Call_gen_arith_w ==
    /\ CanCall
    /\ \E func \in WFuncs :
         LET a == Insn("arith_w", 4, 7, 5, 6, 0, func, "none", 0, 0)
         IN  \E ub \in InsnUB(Fresh, a) :
               Becomes(gen_arith_w(Called(a), a, func, ub))
    /\ HFrame

NextArithW == Call_gen_arith_w

SpecArithW == InitArithW /\ [][NextArithW]_vars

(* -------------- the generators applied on their own -------------------- *)
\* temporaries on entry: the operands in source1 and source2
GenTemps(a, b) == Put(Put(Put(NoTemps, "source1", a), "source2", b), "ret", 0)
RetName(alias) == IF alias THEN "source1" ELSE "ret"
GenDone(fn, alias, t) ==
    gen' = [fn |-> fn, a |-> gen.a, b |-> gen.b, alias |-> alias,
            ret |-> t[RetName(alias)], s1 |-> t["source1"],
            s2 |-> t["source2"], fault |-> t["hostfault"]]

InitGen ==
    /\ gpr = [r \in 0 .. 31 |-> 0]
    /\ cpu_pc = 0 /\ badaddr = 0 /\ hostfault = FALSE
    /\ pc_first = 0 /\ pc_next = 0 /\ pc_succ_insn = 0
    /\ is_jmp = DISAS_NEXT /\ frm = FrmUnknown
    /\ singlestep_enabled = FALSE /\ rvc = TRUE /\ breakpoints = {}
    /\ num_insns = 0 /\ max_insns = MaxInsns
    /\ opcode = NoInsn /\ ir = <<>> /\ prev_rm = NoRequest
    /\ phase = "Generators"
    /\ CONFIG_USER_ONLY = FALSE
    /\ gen \in {GenIdle(a, b) : a \in Word, b \in Word}

GenFrame == UNCHANGED <<gpr, cpu_pc, badaddr, hostfault, pc_first, pc_next,
                        pc_succ_insn, is_jmp, frm, singlestep_enabled, rvc,
                        breakpoints, num_insns, max_insns, opcode, ir,
                        prev_rm, phase, CONFIG_USER_ONLY>>

ApplyGen(fn) ==
    /\ gen.fn = "none"
    /\ \E alias \in BOOLEAN :
         LET t0 == GenTemps(gen.a, gen.b)
             r == RetName(alias)
         IN  \E ub \in UBWords(fn, t0, r, "source1", "source2") :
               GenDone(fn, alias, CallFunc(fn, t0, r, "source1", "source2", ub))
    /\ GenFrame

Apply_gen_mulhsu == ApplyGen("mulhsu")
Apply_gen_div == ApplyGen("div")
Apply_gen_divu == ApplyGen("divu")
Apply_gen_rem == ApplyGen("rem")
Apply_gen_remu == ApplyGen("remu")

NextGen == \/ Apply_gen_mulhsu
           \/ Apply_gen_div
           \/ Apply_gen_divu
           \/ Apply_gen_rem
           \/ Apply_gen_remu

SpecGen == InitGen /\ [][NextGen]_vars

(* ------------------- claims on the generators -------------------------- *)
Overflow(a, b) == a = MinSigned /\ b = AllOnes

\* C2: for every operand pair, gen_div yields the dividend on
\* (MinSigned, -1), all-ones on a zero divisor and the truncating signed
\* quotient otherwise; gen_divu yields all-ones on a zero divisor and the
\* unsigned quotient otherwise; the host divide never runs on a zero
\* divisor or on the overflow pair.
C2_Division ==
    /\ gen.fn = "div" =>
         /\ gen.fault = 0
         /\ gen.ret = IF Overflow(gen.a, gen.b) THEN gen.a
                      ELSE IF gen.b = 0 THEN AllOnes
                      ELSE Trunc(TruncDiv(ToSigned(gen.a), ToSigned(gen.b)))
    /\ gen.fn = "divu" =>
         /\ gen.fault = 0
         /\ gen.ret = IF gen.b = 0 THEN AllOnes ELSE gen.a \div gen.b

\* gen_div was applied to the overflow pair and returned the dividend
C2_Witness ==
    /\ gen.fn = "div" /\ Overflow(gen.a, gen.b)
    /\ gen.ret = MinSigned /\ gen.fault = 0

\* C3: for every operand pair, gen_rem and gen_remu yield the original
\* dividend on a zero divisor; gen_rem yields 0 on (MinSigned, -1); otherwise
\* they yield the signed (sign of the dividend) and the unsigned remainder;
\* also when the result temporary is the dividend temporary.
C3_Remainder ==
    /\ gen.fn = "rem" =>
         /\ gen.fault = 0
         /\ gen.ret = IF gen.b = 0 THEN gen.a
                      ELSE IF Overflow(gen.a, gen.b) THEN 0
                      ELSE Trunc(TruncRem(ToSigned(gen.a), ToSigned(gen.b)))
    /\ gen.fn = "remu" =>
         /\ gen.fault = 0
         /\ gen.ret = IF gen.b = 0 THEN gen.a ELSE gen.a % gen.b

\* gen_rem, result aliasing the dividend, was applied to the overflow pair
C3_Witness ==
    /\ gen.fn = "rem" /\ gen.alias /\ Overflow(gen.a, gen.b)
    /\ gen.ret = 0

\* C4: for every signed a and unsigned b, gen_mulhsu yields the upper XLEN
\* bits of the exact 2*XLEN-bit product a * b.
C4_Mulhsu ==
    gen.fn = "mulhsu" =>
        gen.ret = Trunc((ToSigned(gen.a) * gen.b) \div TwoXLEN)

\* gen_mulhsu was applied to (-1, all-ones): the upper half of -AllOnes
C4_Witness ==
    /\ gen.fn = "mulhsu" /\ gen.a = AllOnes /\ gen.b = AllOnes
    /\ gen.ret = AllOnes

(* ---------------- claims on the register file -------------------------- *)
\* a handler was called in this step (handlers called on their own)
CallStep == phase = "Handlers" /\ num_insns' = num_insns + 1
\* the value a handler reads for register r
RegValue(r) == IF r = 0 THEN 0 ELSE gpr[r]

\* C1: register 0 is hardwired to zero: whatever writes were made, slot 0
\* of the register file holds 0 and a read of index 0 yields 0, and a
\* handler call whose destination index is 0 leaves the register file as
\* it was.
C1_ZeroRegister ==
    /\ [](gpr[0] = 0 /\ gen_get_gpr(Cur, NoTemps, "t", 0)["t"] = 0)
    /\ [][CallStep /\ opcode'.rd = 0 => gpr' = gpr]_vars

\* a register was written, then gen_arith was called with destination 0
C1_Witness ==
    /\ phase = "Handlers" /\ num_insns >= 2
    /\ opcode.kind = "arith" /\ opcode.rd = 0 /\ opcode.rs1 = 5
    /\ gpr[5] = 42 /\ gpr[0] = 0

\* architectural result of func on operand values v1, v2
RefOp(func, v1, v2) ==
    CASE func = "add" -> Trunc(v1 + v2)
      [] func = "div" -> IF v2 = 0 THEN AllOnes
                         ELSE IF Overflow(v1, v2) THEN v1
                         ELSE Trunc(TruncDiv(ToSigned(v1), ToSigned(v2)))

\* C10: gen_arith_imm / gen_arith with destination rd write
\* func(value(rs1), imm or value(rs2)) to rd, value(x0) being 0, and change
\* nothing else: no other register, not the guest pc, the rounding-mode
\* cache, pc_next, pc_succ_insn or the exit reason; the only side-effecting
\* IR operation is the register write.
C10_ArithFrame ==
    [][CallStep /\ opcode'.kind \in {"arith_imm", "arith"} =>
         LET a == opcode'
             v2 == IF a.kind = "arith_imm" THEN Trunc(a.imm) ELSE RegValue(a.rs2)
             res == RefOp(a.func, RegValue(a.rs1), v2)
         IN  /\ gpr' = IF a.rd = 0 THEN gpr ELSE [gpr EXCEPT ![a.rd] = res]
             /\ ir' = IF a.rd = 0 THEN <<>> ELSE <<Op("mov_gpr", a.rd)>>
             /\ UNCHANGED <<cpu_pc, badaddr, hostfault, frm, pc_first, pc_next,
                            pc_succ_insn, is_jmp>>]_vars

\* ADDI x5, x0, 42 was translated and x5 holds 42
C10_Witness ==
    /\ phase = "Handlers" /\ opcode.kind = "arith_imm" /\ opcode.func = "add"
    /\ opcode.rd = 5 /\ opcode.rs1 = 0 /\ opcode.imm = 42
    /\ gpr[5] = 42 /\ ir = <<Op("mov_gpr", 5)>> /\ is_jmp = DISAS_NEXT

(* ------------------- claims on the block driver ------------------------ *)
\* the instruction fetched in this Translate step reached its handler
Decoded(insn) == insn.kind # "illegal" /\ (insn.len = 4 \/ rvc)
ExitOps == {"exit_tb", "exit_tb_NULL", "lookup_and_goto_ptr", "raise_exception"}
CountExits(seq) == Cardinality({i \in 1 .. Len(seq) : seq[i].op \in ExitOps})
\* first address after the page of the block's first instruction
Boundary == Trunc(PageStart(pc_first) + TARGET_PAGE_SIZE)

\* C5: every instruction translated into a block, at address a with length
\* L, has its bytes a .. a+L-1 inside the page of the block's first
\* instruction.
C5_NoPageSpan ==
    [][phase = "Translate" /\ Decoded(opcode') =>
         PageStart(Trunc(pc_next + opcode'.len - 1)) = PageStart(pc_first)]_vars

\* the first instruction is neither a control transfer nor a trap and ends
\* exactly at the page boundary
C6_Pre(insn) ==
    /\ insn.kind \in {"arith_imm", "arith", "shift", "fp"}
    /\ Decoded(insn)
    /\ Trunc(pc_first + insn.len) = Boundary

\* C6: when the block's first instruction is neither control transfer nor
\* trap and ends exactly at the page boundary, translating it ends the
\* block with exit reason too-many-instructions and pc_next at the
\* boundary, and the block stop emits exactly one exit, with the guest pc
\* set to the boundary.
C6_OneInsnBlock ==
    /\ [][phase = "Translate" /\ num_insns = 1 /\ C6_Pre(opcode') =>
            /\ phase' = "BlockStop"
            /\ is_jmp' = DISAS_TOO_MANY
            /\ pc_next' = Boundary]_vars
    /\ [](phase = "Done" /\ num_insns = 1 /\ C6_Pre(opcode) =>
            /\ CountExits(ir) = 1
            /\ CountOp(ir, "movi_pc") = 1
            /\ cpu_pc = Boundary /\ pc_next = Boundary)

\* a one-instruction block before the boundary was stopped with an
\* indirect exit to the boundary
C6_Witness ==
    /\ phase = "Done" /\ num_insns = 1 /\ C6_Pre(opcode) /\ ~singlestep_enabled
    /\ ir = <<Op("movi_pc", Boundary), Op("lookup_and_goto_ptr", 0)>>

\* C7: gen_jal without the compressed extension and with a target that has
\* one of its low two bits set raises the misaligned-address exception
\* before any side effect: no register is written, no jump or exit to the
\* target is emitted, badaddr is recorded and the exit reason is no-return.
C7_JalMisaligned ==
    [][phase = "Translate" /\ opcode'.kind = "jal" /\ Decoded(opcode')
       /\ ~rvc /\ Trunc(pc_next + opcode'.imm) % 4 # 0 =>
         /\ gpr' = gpr
         /\ ir' = <<Op("movi_pc", pc_next), Op("st_badaddr", pc_next),
                    Op("raise_exception", RISCV_EXCP_INST_ADDR_MIS)>>
         /\ badaddr' = pc_next
         /\ is_jmp' = DISAS_NORETURN]_vars

\* a JAL x1 with misaligned target was translated without RVC
C7_Witness ==
    /\ phase = "BlockStop" /\ opcode.kind = "jal" /\ opcode.len = 4 /\ ~rvc
    /\ opcode.rd = 1 /\ opcode.imm = 2
    /\ gpr[1] = 0 /\ badaddr = Trunc(pc_next - 4)
    /\ is_jmp = DISAS_NORETURN

\* an fp instruction reached gen_set_rm in this Translate step
FpStep == phase = "Translate" /\ opcode'.kind = "fp" /\ Decoded(opcode')

\* C8: within a block, the request for rounding mode r emits a mode install
\* exactly when it is the block's first request or r differs from the
\* previous request, the install being of r; after it the cache holds r;
\* before the first request of a block the cache holds the unknown
\* sentinel, whatever the context held before.
C8_RoundingModeCache ==
    /\ [][FpStep =>
            /\ CountOp(ir', "set_rounding_mode") =
                 IF prev_rm = NoRequest \/ opcode'.rm # prev_rm THEN 1 ELSE 0
            /\ \A i \in 1 .. Len(ir') : ir'[i].arg = opcode'.rm
            /\ frm' = opcode'.rm]_vars
    /\ [](phase \notin {"Init"} /\ prev_rm = NoRequest => frm = FrmUnknown)
    /\ [](phase \notin {"Init"} /\ prev_rm # NoRequest => frm = prev_rm)

\* the second of two requests for the same mode emitted no install
C8_Witness ==
    /\ phase = "InsnStart" /\ num_insns = 2 /\ opcode.kind = "fp"
    /\ prev_rm = opcode.rm /\ frm = opcode.rm
    /\ CountOp(ir, "set_rounding_mode") = 0

\* C9: translating ECALL (EBREAK) writes the instruction's own address to
\* the guest pc before raising, raises exactly the user-environment-call
\* (breakpoint) exception, sets the exit reason to no-return, emits a
\* non-chained exit and no chained one, and writes no register.
C9_EcallEbreak ==
    [][phase = "Translate" /\ opcode'.kind = "system" /\ Decoded(opcode')
       /\ opcode'.opc = "OPC_RISC_ECALL" /\ opcode'.csr \in {0, 1} =>
         /\ ir' = <<Op("movi_pc", pc_next), Op("movi_pc", pc_next),
                    Op("raise_exception",
                       IF opcode'.csr = 0 THEN RISCV_EXCP_U_ECALL
                       ELSE RISCV_EXCP_BREAKPOINT),
                    Op("exit_tb_NULL", 0)>>
         /\ cpu_pc' = pc_next
         /\ is_jmp' = DISAS_NORETURN
         /\ phase' = "BlockStop"
         /\ gpr' = gpr]_vars

\* an ECALL was translated
C9_Witness ==
    /\ phase = "BlockStop" /\ opcode.kind = "system"
    /\ opcode.opc = "OPC_RISC_ECALL" /\ opcode.csr = 0
    /\ cpu_pc = Trunc(pc_next - 4) /\ is_jmp = DISAS_NORETURN
    /\ CountOp(ir, "raise_exception") = 1

\* C11: translation of a block terminates: the driver reaches BlockStop;
\* every Translate step either leaves the exit reason other than continue
\* or moves pc_next strictly closer to the end of the page of the block's
\* first instruction; a block holds at most page-size / 2 instructions.
C11_Terminates ==
    /\ <>(phase = "BlockStop")
    /\ [][phase = "Translate" =>
            \/ is_jmp' # DISAS_NEXT
            \/ Trunc(Boundary - pc_next') < Trunc(Boundary - pc_next)]_vars
    /\ [](2 * num_insns <= TARGET_PAGE_SIZE)

\* a block of page-size / 2 two-byte instructions was ended by the page
\* limit, the instruction budget not being used up
C11_Witness ==
    /\ phase = "BlockStop" /\ 2 * num_insns = TARGET_PAGE_SIZE
    /\ num_insns < max_insns /\ is_jmp = DISAS_TOO_MANY
    /\ pc_next = Boundary /\ opcode.len = 2

(* ------------------ claims on decoding and the block key --------------- *)
\* what a Translate step contributes to the block
Outcome(S) == <<S.ir, S.pc_next, S.is_jmp>>
\* the context with the extension bits env holds at translate time being c
LiveEnv(S, c) == [S EXCEPT !.rvc = c]

\* C12: translation is a function of the block's start address, the
\* instruction stream and what Init captured: every Translate step yields
\* the same IR, pc_next and exit reason as it does from the same context
\* under any other extension bits env may hold at translate time (bits a
\* block at pc_first can be started under).
C12_KeyDeterminism ==
    [][phase = "Translate" =>
         \A live \in BOOLEAN :
            live \/ pc_first % 4 = 0 =>
              \E ub \in InsnUB(LiveEnv(Fresh, live), opcode') :
                Outcome(riscv_tr_translate_insn(LiveEnv(Fresh, live), opcode', ub))
                  = <<ir', pc_next', is_jmp'>>]_vars

\* C13: a Translate step on the instruction at pc_next, of encoded length
\* L (2 or 4, by the low two opcode bits), sets pc_succ_insn to pc_next + L
\* and ends with pc_next advanced by L, also when the step ends in an
\* illegal-instruction trap.
C13_SuccAdvance ==
    [][phase = "Translate" =>
         /\ opcode'.len \in {2, 4}
         /\ pc_succ_insn' = Trunc(pc_next + opcode'.len)
         /\ pc_next' = Trunc(pc_next + opcode'.len)]_vars

\* C14: a Translate step whose opcode no decoder pattern matches, or whose
\* opcode is compressed while the compressed extension is absent, emits
\* exactly the illegal-instruction exception with the guest pc set to the
\* address of that instruction, sets the exit reason to no-return and ends
\* the block; nothing else of the guest state changes, and the block stop
\* that follows does not abort.
C14_DecodeFailureTraps ==
    /\ [][phase = "Translate" /\ ~Decoded(opcode') =>
            /\ ir' = <<Op("movi_pc", pc_next),
                       Op("raise_exception", RISCV_EXCP_ILLEGAL_INST)>>
            /\ cpu_pc' = pc_next
            /\ is_jmp' = DISAS_NORETURN
            /\ phase' = "BlockStop"
            /\ UNCHANGED <<gpr, badaddr, hostfault, frm>>]_vars
    /\ [][phase = "BlockStop" /\ opcode # NoInsn /\ ~Decoded(opcode) =>
            phase' = "Done" /\ ir' = <<>> /\ num_insns' = num_insns]_vars

\* the second instruction of a block matched no pattern: the block is done
\* with the guest pc at that instruction
C14_Witness ==
    /\ phase = "Done" /\ num_insns = 2
    /\ opcode.kind = "illegal" /\ opcode.len = 4
    /\ cpu_pc = Trunc(pc_first + 4) /\ pc_next = Trunc(pc_first + 8)
    /\ is_jmp = DISAS_NORETURN /\ ~hostfault

(* ------------------ claims on block exits and the block stop ----------- *)
\* C15: the assertion of riscv_tr_tb_stop is never reached: the block stop
\* is entered only with exit reason too-many-instructions or no-return;
\* once the exit reason has left continue it does not return to it, and no
\* further instruction of the block is started or translated.
C15_StopReason ==
    /\ [](phase = "BlockStop" => is_jmp \in {DISAS_TOO_MANY, DISAS_NORETURN})
    /\ [](phase # "Abort")
    /\ [](is_jmp # DISAS_NEXT => phase \in {"BlockStop", "Done"})
    /\ [][is_jmp # DISAS_NEXT =>
            is_jmp' = is_jmp /\ num_insns' = num_insns /\ opcode' = opcode]_vars

\* a block was stopped by the instruction budget and its stop returned
C15_Witness ==
    /\ phase = "Done" /\ is_jmp = DISAS_TOO_MANY /\ ~singlestep_enabled
    /\ num_insns = max_insns /\ pc_next # Boundary

\* the exits gen_goto_tb(ctx, n, dest) can emit
ChainedExit(dest) == <<Op("goto_tb", 0), Op("movi_pc", dest), Op("exit_tb", 0)>>
IndirectExit(dest) == <<Op("movi_pc", dest), Op("lookup_and_goto_ptr", 0)>>
DebugExit(dest) == <<Op("movi_pc", dest), Op("raise_exception", EXCP_DEBUG)>>
\* the IR of a step without the link-register write of gen_jal
IsExitOp(o) == o.op # "mov_gpr"
GotoIR(seq) == SelectSeq(seq, IsExitOp)
\* this step goes through gen_goto_tb: a jump with a valid target, or the
\* block stop on too-many-instructions
JalGoto == /\ phase = "Translate" /\ opcode'.kind = "jal" /\ Decoded(opcode')
           /\ (rvc \/ Trunc(pc_next + opcode'.imm) % 4 = 0)
StopGoto == phase = "BlockStop" /\ is_jmp = DISAS_TOO_MANY
GotoDest == IF phase = "Translate" THEN Trunc(pc_next + opcode'.imm) ELSE pc_next
SamePage(dest) == PageStart(dest) = PageStart(pc_first)
\* what holds of every exit through gen_goto_tb in every build
GotoCommon ==
    /\ GotoIR(ir') \in {ChainedExit(GotoDest), IndirectExit(GotoDest),
                        DebugExit(GotoDest)}
    /\ cpu_pc' = GotoDest
    /\ singlestep_enabled => GotoIR(ir') = DebugExit(GotoDest)
    /\ ~singlestep_enabled => GotoIR(ir') # DebugExit(GotoDest)

C17_Breakpoint ==
    /\ [][phase = "BreakpointCheck" /\ pc_next \in breakpoints =>
            /\ ir' = DebugExit(pc_next)
            /\ cpu_pc' = pc_next
            /\ is_jmp' = DISAS_NORETURN
            /\ pc_next' = Trunc(pc_next + 4)
            /\ phase' = "BlockStop"
            /\ UNCHANGED <<opcode, gpr, pc_succ_insn, num_insns>>
            /\ Trunc(pc_next - pc_first) < Trunc(pc_next' - pc_first)]_vars
    /\ [][phase = "BlockStop" /\ cpu_pc \in breakpoints /\ ir = DebugExit(cpu_pc)
          /\ pc_next = Trunc(cpu_pc + 4) /\ pc_succ_insn = cpu_pc =>
            phase' = "Done" /\ ir' = <<>> /\ UNCHANGED <<pc_next, cpu_pc, opcode>>]_vars

\* a breakpoint at the second instruction of a block: the first was
\* translated, the second was not, and the block ends 4 bytes after it
C17_Witness ==
    /\ phase = "Done" /\ breakpoints = {Trunc(pc_first + 4)} /\ num_insns = 2
    /\ opcode.kind = "arith_imm" /\ opcode.len = 4 /\ gpr[5] = 42
    /\ cpu_pc = Trunc(pc_first + 4) /\ pc_next = Trunc(pc_first + 8)
    /\ is_jmp = DISAS_NORETURN

(* ------------------ claims on jumps and system instructions ------------ *)
\* the register write gen_jal emits for link register rd
LinkIR(rd) == IF rd = 0 THEN <<>> ELSE <<Op("mov_gpr", rd)>>

\* C18: gen_jal with a valid target (compressed extension present, or both
\* low bits of pc_next + imm clear): when rd is not 0, rd receives the
\* jump's address plus its own length (2 or 4), written before the exit;
\* the exit goes to exactly pc_next + imm modulo 2^XLEN; the exit reason
\* becomes no-return; with rd = 0 no register is written.
C18_JalLink ==
    [][JalGoto =>
         /\ gpr' = IF opcode'.rd = 0 THEN gpr
                   ELSE [gpr EXCEPT ![opcode'.rd] = Trunc(pc_next + opcode'.len)]
         /\ \E exit \in {ChainedExit(GotoDest), IndirectExit(GotoDest),
                          DebugExit(GotoDest)} :
               ir' = LinkIR(opcode'.rd) \o exit
         /\ cpu_pc' = Trunc(pc_next + opcode'.imm)
         /\ is_jmp' = DISAS_NORETURN
         /\ phase' = "BlockStop"
         /\ UNCHANGED <<badaddr, frm>>]_vars

\* a compressed JAL x1 was translated: x1 holds the jump's address plus 2
C18_Witness ==
    /\ phase = "BlockStop" /\ opcode.kind = "jal" /\ opcode.len = 2 /\ rvc
    /\ opcode.rd = 1 /\ gpr[1] = pc_next /\ pc_next = Trunc(pc_first + 2)
    /\ ir[1] = Op("mov_gpr", 1) /\ is_jmp = DISAS_NORETURN
    /\ cpu_pc = Trunc(pc_first + opcode.imm)

\* C19: every system instruction handled by gen_system ends the block: the
\* instruction's address is written to the guest pc first; then the ECALL
\* or the EBREAK exception is raised or, for any other opcode or
\* sub-opcode, the illegal-instruction exception; the exit reason is
\* no-return afterwards.
C19_SystemTerminates ==
    [][phase = "Translate" /\ opcode'.kind = "system" /\ Decoded(opcode') =>
         /\ Len(ir') >= 1 /\ ir'[1] = Op("movi_pc", pc_next)
         /\ CountOp(ir', "raise_exception") = 1
         /\ \E i \in 1 .. Len(ir') :
               ir'[i] = Op("raise_exception",
                           IF opcode'.opc # "OPC_RISC_ECALL" THEN RISCV_EXCP_ILLEGAL_INST
                           ELSE IF opcode'.csr = 0 THEN RISCV_EXCP_U_ECALL
                           ELSE IF opcode'.csr = 1 THEN RISCV_EXCP_BREAKPOINT
                           ELSE RISCV_EXCP_ILLEGAL_INST)
         /\ is_jmp' = DISAS_NORETURN]_vars

(* ------------------ claims on word-sized operations -------------------- *)
\* a value of WLEN bits read as signed
ToSignedW(x) == IF x >= Pow2(WLEN - 1) THEN x - TwoWLEN ELSE x
\* architectural result of the word operation func on the low WLEN bits of
\* v1 and v2, as a WLEN-bit value
RefOpW(func, v1, v2) ==
    LET a == v1 % TwoWLEN
        b == v2 % TwoWLEN
        ovf == a = Pow2(WLEN - 1) /\ b = TwoWLEN - 1
    IN  CASE func = "add"  -> (a + b) % TwoWLEN
          [] func = "sub"  -> (a - b) % TwoWLEN
          [] func = "div"  -> IF b = 0 THEN TwoWLEN - 1
                              ELSE IF ovf THEN a
                              ELSE TruncDiv(ToSignedW(a), ToSignedW(b)) % TwoWLEN
          [] func = "divu" -> IF b = 0 THEN TwoWLEN - 1 ELSE a \div b
          [] func = "rem"  -> IF b = 0 THEN a
                              ELSE IF ovf THEN 0
                              ELSE TruncRem(ToSignedW(a), ToSignedW(b)) % TwoWLEN
          [] func = "remu" -> IF b = 0 THEN a ELSE a % b

\* C20: on the dual-width guest, for every operand pair and every operation
\* passed to gen_arith_w, the value written to rd is sign-extended from
\* the word width and its low word is the architectural word-sized result
\* of the operation on the low words of the operands; no undefined host
\* operation is run.
C20_WordOps ==
    opcode.kind = "arith_w" =>
        /\ gpr[opcode.rd] = SignExtW(gpr[opcode.rd])
        /\ gpr[opcode.rd]
             = SignExtW(RefOpW(opcode.func, gpr[opcode.rs1], gpr[opcode.rs2]))
        /\ ~hostfault

====
